---- MODULE Spec2Model ----
(***************************************************************************)
(* Model of uefapi-runner (src/src/main.rs): one run of `main`, from the   *)
(* command line to process exit, together with the part of the world it    *)
(* acts on: the configuration files, the artifact at binary_path, the      *)
(* temporary staging directory, the firmware directory, the build child    *)
(* and the emulator child.                                                 *)
(*                                                                         *)
(* Strings built with format! and paths built with join are sequences of   *)
(* string fragments, so that their composition can be compared part by part.*)
(***************************************************************************)
EXTENDS Integers, Sequences, FiniteSets, TLC

VARIABLES
    argv1,      \* args().nth(1): <<>> when absent, else <<s>>
    files,      \* the configuration files on disk, by path
    config,     \* the loaded RunnerConfig: <<>> before loading, else <<c>>
    pc,         \* position of main in the pipeline
    outcome,    \* how the process ended: running / success / panic / killed
    diag,       \* records emitted by info!/warn!/error! and panic messages
    binFile,    \* content of the file at config.binary_path (0: no file)
    workDir,    \* the tempfile::tempdir() directory: none / exists / removed
    efiBootDir, \* whether <work_dir>/EFI/BOOT exists
    tree,       \* the files under work_dir: a set of [path, content]
    ovmfFiles,  \* names of the files present in the firmware directory
    build,      \* the cargo child: none / running / exited
    buildStatus,\* exit status of the cargo child
    buildCall,  \* how cargo was invoked: <<>> or <<[args, cwd]>>
    buildSpawns,\* number of cargo children spawned
    emu,        \* the emulator child: none / running / exited
    emuStatus,  \* exit status of the emulator child
    emuCall,    \* how the emulator was invoked: <<>> or <<[prog, args]>>
    emuSpawns,  \* number of emulator children spawned
    runs        \* number of invocations of the tool so far, this one included

vars == <<argv1, files, config, pc, outcome, diag, binFile, workDir,
          efiBootDir, tree, ovmfFiles, build, buildStatus, buildCall,
          buildSpawns, emu, emuStatus, emuCall, emuSpawns, runs>>

(***************************************************************************)
(* Bounds of the model.                                                    *)
(***************************************************************************)
\* distinct artifact contents: the file at binary_path holds one of 1..NumContents
NumContents == 2
\* distinct non-zero exit statuses a child may report: 1..MaxExitStatus
MaxExitStatus == 1
\* invocations of the tool in a row, where repeated invocations are considered
MaxRuns == 2

Contents == 1..NumContents
ExitStatuses == 0..MaxExitStatus

(***************************************************************************)
(* RunnerConfig and its example value.                                     *)
(***************************************************************************)
example ==
    [ project_path |-> <<".">>,
      auto_build   |-> TRUE,
      build_cmd    |-> <<"build", " ", "--target", " ", "x86_64-unknown-uefi", " ", "--release">>,
      binary_path  |-> <<"target/x86_64-unknown-uefi/debug/your_bin_name.efi">>,
      efi_name     |-> "BOOTX64.EFI",
      move_binary  |-> TRUE,
      qemu_cmd     |-> <<"/path_to_qemu/qemu-system-x86_64">>,
      ovmf_path    |-> <<"/path_to_ovmf_files">>,
      stdio_serial |-> TRUE,
      log_serial   |-> TRUE,
      log_path     |-> <<"runner-x86_64-release.log">> ]

\* build_cmd values the configuration may hold: fragments, " " is whitespace
BuildCmds == { <<"build", " ", "--release">>, <<" ", "build", " ", " ", "-q">> }

\* ovmf_path values the configuration may hold
OvmfPaths == { <<"ovmf">>, <<"nowhere">> }

\* the configurations a file may hold
RunnerConfig ==
    [ project_path : { <<"proj">> },
      auto_build   : BOOLEAN,
      build_cmd    : BuildCmds,
      binary_path  : { <<"proj/target/app.efi">> },
      efi_name     : { "BOOTX64.EFI" },
      move_binary  : BOOLEAN,
      qemu_cmd     : { <<"qemu-system-x86_64">> },
      ovmf_path    : OvmfPaths,
      stdio_serial : BOOLEAN,
      log_serial   : BOOLEAN,
      log_path     : { <<"serial.log">> } ]

(***************************************************************************)
(* Files holding a configuration.                                          *)
(***************************************************************************)
DefaultConfigPath == "uefapi-runner.toml"
OtherConfigPath == "other.toml"
ConfigPaths == { DefaultConfigPath, OtherConfigPath }

Absent == [kind |-> "absent", cfg |-> example]
Garbage == [kind |-> "garbage", cfg |-> example]

\* toml::to_string_pretty: the text of a configuration
to_string_pretty(c) == [kind |-> "toml", cfg |-> c]

\* toml::from_str: <<c>> when the text is a configuration, <<>> when it is not
from_str(text) == IF text.kind = "toml" THEN <<text.cfg>> ELSE <<>>

\* variant: the command-line argument is ignored, the default file is always loaded
config_path_default_only == DefaultConfigPath

\* args().nth(1).unwrap_or("uefapi-runner.toml")
config_path == IF argv1 = <<>> THEN DefaultConfigPath ELSE argv1[1]

\* the loaded configuration
Cfg == config[1]

(***************************************************************************)
(* Logging and process exit.                                               *)
(***************************************************************************)
Rec(level, msg) == [level |-> level, msg |-> msg]

Emit(recs) == diag' = diag \o recs

Banner == Rec("info", <<"UEFAPI Cargo UEFI Project Runner, Version ", "CARGO_PKG_VERSION">>)

\* Drop of the TempDir guard: the directory and everything under it is removed
TempDirDrop ==
    /\ workDir' = IF workDir = "exists" THEN "removed" ELSE workDir
    /\ efiBootDir' = FALSE
    /\ tree' = {}

\* `return` from main (or falling off its end): locals are dropped, exit code 0
Return(recs) ==
    /\ Emit(recs)
    /\ TempDirDrop
    /\ pc' = "Finished"
    /\ outcome' = "success"

\* variant: the process aborts on panic, nothing is unwound or dropped
PanicAbort(recs, msg) ==
    /\ Emit(recs \o <<Rec("panic", <<msg>>)>>)
    /\ UNCHANGED <<workDir, efiBootDir, tree>>
    /\ pc' = "Finished"
    /\ outcome' = "panic"

\* a failed expect(): the panic message is printed, the stack unwinds and
\* drops the locals, the process exits with the panic exit code
Panic(recs, msg) ==
    /\ Emit(recs \o <<Rec("panic", <<msg>>)>>)
    /\ TempDirDrop
    /\ pc' = "Finished"
    /\ outcome' = "panic"

\* the run is in progress at position p
At(p) == outcome = "running" /\ pc = p

(***************************************************************************)
(* Paths, firmware directory and the emulator's arguments.                 *)
(***************************************************************************)
\* work_dir.path(): the path of the temporary directory
WorkDirPath == <<"/tmp/.tmpdir">>

\* Path::join
join(path, name) == path \o <<"/", name>>

\* the firmware directory on disk, in canonical form
OvmfDir == <<"/abs/ovmf">>

\* Path::canonicalize: <<p>> for a path that resolves, <<>> for one that does not
canonicalize(path) == IF path = <<"ovmf">> THEN <<OvmfDir>> ELSE <<>>

\* Path::exists, for a path under the firmware directory
exists(path) == \E n \in ovmfFiles : path = join(OvmfDir, n)

\* variant: build_cmd is handed over unsplit, whitespace included
no_split(s) == s

\* str::split_whitespace on a sequence of fragments
split_whitespace(s) == SelectSeq(s, LAMBDA f : f # " ")

ovmf_code_bin(ovmf_path) == join(ovmf_path, "OVMF_CODE.fd")
ovmf_vars_bin(ovmf_path) == join(ovmf_path, "OVMF_VARS.fd")

\* the -chardev value of lines 111-113
ChardevArg(c) ==
    (IF c.stdio_serial THEN <<"stdio,">> ELSE <<>>) \o <<"id=char0,logfile=">> \o c.log_path

\* variant: log_serial alone also wires in the character device and its log file
SerialArgsLogOnly(c) ==
    IF c.stdio_serial \/ c.log_serial
    THEN << <<"-chardev">>, ChardevArg(c), <<"-serial">>, <<"chardev:char0">> >>
    ELSE <<>>

\* variant: the serial arguments are appended whatever stdio_serial is
SerialArgsAlways(c) ==
    << <<"-chardev">>, ChardevArg(c), <<"-serial">>, <<"chardev:char0">> >>

\* the serial arguments appended when stdio_serial is set
SerialArgs(c) ==
    IF c.stdio_serial
    THEN << <<"-chardev">>, ChardevArg(c), <<"-serial">>, <<"chardev:char0">> >>
    ELSE <<>>

\* variant: the emulator is given the EFI/BOOT directory instead of the staging root
FatDriveArgBootDir(work_dir) == <<"format=raw,file=fat:rw:">> \o join(work_dir, "EFI/BOOT")

\* the drive value of line 107: the staging directory as a writable FAT filesystem
FatDriveArg(work_dir) == <<"format=raw,file=fat:rw:">> \o work_dir

\* the whole argument list of the emulator
QemuArgs(c, ovmf_path, work_dir) ==
    << <<"-machine">>, <<"q35">>,
       <<"-drive">>, <<"if=pflash,format=raw,file=">> \o ovmf_code_bin(ovmf_path),
       <<"-drive">>, <<"if=pflash,format=raw,file=">> \o ovmf_vars_bin(ovmf_path),
       <<"-drive">>, FatDriveArg(work_dir) >>
    \o SerialArgs(c)

(***************************************************************************)
(* Initial states: the command line and the disk before the run.           *)
(***************************************************************************)
FirmwareNames == {"OVMF_CODE.fd", "OVMF_VARS.fd"}

Init ==
    /\ argv1 \in { <<>>, <<"gen">>, <<OtherConfigPath>> }
    /\ \E c \in RunnerConfig :
         files \in [ConfigPaths -> {Absent, Garbage, to_string_pretty(c)}]
    /\ config = <<>>
    /\ pc = "Start"
    /\ outcome = "running"
    /\ diag = <<>>
    /\ binFile \in {0} \cup Contents
    /\ workDir = "none"
    /\ efiBootDir = FALSE
    /\ tree = {}
    /\ ovmfFiles \in SUBSET FirmwareNames
    /\ build = "none"
    /\ buildStatus = 0
    /\ buildCall = <<>>
    /\ buildSpawns = 0
    /\ emu = "none"
    /\ emuStatus = 0
    /\ emuCall = <<>>
    /\ emuSpawns = 0
    /\ runs = 1

world == <<binFile, ovmfFiles>>
tmp == <<workDir, efiBootDir, tree>>
children == <<build, buildStatus, buildCall, buildSpawns, emu, emuStatus, emuCall, emuSpawns>>
buildVars == <<build, buildStatus, buildCall, buildSpawns>>
emuVars == <<emu, emuStatus, emuCall, emuSpawns>>

(***************************************************************************)
(* Generate mode, lines 42-50.                                             *)
(***************************************************************************)
\* variant: an existing file is left as it is
GenOkKeepsExisting ==
    /\ At("Start")
    /\ argv1 = <<"gen">>
    /\ files' = IF files[DefaultConfigPath].kind = "absent"
                THEN [files EXCEPT ![DefaultConfigPath] = to_string_pretty(example)]
                ELSE files
    /\ Return(<<Banner, Rec("info", <<"Example config written to uefapi-runner.toml">>)>>)
    /\ UNCHANGED <<runs, argv1, config, world, children>>

GenOk ==
    /\ At("Start")
    /\ argv1 = <<"gen">>
    /\ files' = [files EXCEPT ![DefaultConfigPath] = to_string_pretty(example)]
    /\ Return(<<Banner, Rec("info", <<"Example config written to uefapi-runner.toml">>)>>)
    /\ UNCHANGED <<runs, argv1, config, world, children>>

GenWriteFail ==
    /\ At("Start")
    /\ argv1 = <<"gen">>
    /\ Panic(<<Banner>>, "Failed to write example config")
    /\ UNCHANGED <<runs, argv1, files, config, world, children>>

(***************************************************************************)
(* Loading the configuration, lines 51-60.                                 *)
(***************************************************************************)
Loading == Rec("info", <<"Loading config from ", config_path>>)

\* variant: the warning is given for every configuration that moves the binary
RiskWarningAnyMove(c) ==
    IF c.move_binary
    THEN <<Rec("warn", <<"Moving binary away but not auto-building, this may cause issues">>)>>
    ELSE <<>>

RiskWarning(c) ==
    IF ~c.auto_build /\ c.move_binary
    THEN <<Rec("warn", <<"Moving binary away but not auto-building, this may cause issues">>)>>
    ELSE <<>>

\* variant: the parsed configuration is written back to the file it came from
LoadOkRewrites ==
    /\ At("Start")
    /\ argv1 # <<"gen">>
    /\ files[config_path].kind # "absent"
    /\ from_str(files[config_path]) # <<>>
    /\ config' = from_str(files[config_path])
    /\ files' = [p \in ConfigPaths |-> to_string_pretty(from_str(files[config_path])[1])]
    /\ Emit(<<Banner, Loading, Rec("info", <<"Config loaded: ", "{:?}">>)>>
            \o RiskWarning(from_str(files[config_path])[1]))
    /\ pc' = "ConfigLoaded"
    /\ UNCHANGED <<runs, argv1, outcome, world, tmp, children>>

LoadOk ==
    /\ At("Start")
    /\ argv1 # <<"gen">>
    /\ files[config_path].kind # "absent"
    /\ from_str(files[config_path]) # <<>>
    /\ config' = from_str(files[config_path])
    /\ Emit(<<Banner, Loading, Rec("info", <<"Config loaded: ", "{:?}">>)>>
            \o RiskWarning(from_str(files[config_path])[1]))
    /\ pc' = "ConfigLoaded"
    /\ UNCHANGED <<runs, argv1, files, outcome, world, tmp, children>>

ReadFail ==
    /\ At("Start")
    /\ argv1 # <<"gen">>
    /\ files[config_path].kind = "absent"
    /\ Panic(<<Banner, Loading>>, "Failed to read config file")
    /\ UNCHANGED <<runs, argv1, files, config, world, children>>

ParseFail ==
    /\ At("Start")
    /\ argv1 # <<"gen">>
    /\ files[config_path].kind # "absent"
    /\ from_str(files[config_path]) = <<>>
    /\ Panic(<<Banner, Loading>>, "Failed to parse config file")
    /\ UNCHANGED <<runs, argv1, files, config, world, children>>

(***************************************************************************)
(* Build step, lines 61-74.                                                *)
(***************************************************************************)
BuildSpawnOk ==
    /\ At("ConfigLoaded")
    /\ Cfg.auto_build
    /\ build' = "running"
    /\ buildCall' = <<[prog |-> "cargo",
                       args |-> split_whitespace(Cfg.build_cmd),
                       cwd  |-> Cfg.project_path]>>
    /\ buildSpawns' = buildSpawns + 1
    /\ Emit(<<Rec("info", <<"Building project">>)>>)
    /\ pc' = "Building"
    /\ UNCHANGED <<runs, argv1, files, config, outcome, world, tmp, buildStatus, emuVars>>

BuildSpawnFail ==
    /\ At("ConfigLoaded")
    /\ Cfg.auto_build
    /\ Panic(<<Rec("info", <<"Building project">>)>>, "Failed to run build command")
    /\ UNCHANGED <<runs, argv1, files, config, world, children>>

\* the build tool exits, whatever the runner is doing; it may have left or
\* (re)written the artifact at binary_path
BuildExit ==
    /\ build = "running"
    /\ build' = "exited"
    /\ buildStatus' \in ExitStatuses
    /\ binFile' \in {binFile} \cup Contents
    /\ UNCHANGED <<runs, argv1, files, config, pc, outcome, diag, ovmfFiles, tmp,
                   buildCall, buildSpawns, emuVars>>

\* cmd.wait() returned a successful status
BuildSucceeded ==
    /\ At("Building")
    /\ build = "exited"
    /\ buildStatus = 0
    /\ Emit(<<Rec("info", <<"Build successful">>)>>)
    /\ pc' = "Built"
    /\ UNCHANGED <<runs, argv1, files, config, outcome, world, tmp, children>>

\* variant: the failed build is reported but main does not return
BuildFailedContinues ==
    /\ At("Building")
    /\ build = "exited"
    /\ buildStatus # 0
    /\ Emit(<<Rec("error", <<"Build failed">>)>>)
    /\ pc' = "Built"
    /\ UNCHANGED <<runs, argv1, files, config, outcome, world, tmp, children>>

\* cmd.wait() returned an unsuccessful status
BuildFailed ==
    /\ At("Building")
    /\ build = "exited"
    /\ buildStatus # 0
    /\ Return(<<Rec("error", <<"Build failed">>)>>)
    /\ UNCHANGED <<runs, argv1, files, config, world, children>>

\* cmd.wait() returned an error: the child is no longer there to wait for
BuildWaitFail ==
    /\ At("Building")
    /\ build = "exited"
    /\ Panic(<<>>, "Failed to wait for build command")
    /\ UNCHANGED <<runs, argv1, files, config, world, children>>

(***************************************************************************)
(* Staging step, lines 75-89.                                              *)
(***************************************************************************)
\* variant: staging does not wait for the build step
ReadyToStageEarly == At("Built") \/ At("ConfigLoaded")

\* the build step is over: it succeeded, or auto_build is off
ReadyToStage == At("Built") \/ (At("ConfigLoaded") /\ ~Cfg.auto_build)

efi_boot_dir == join(WorkDirPath, "EFI/BOOT")
efi_bin_path == join(efi_boot_dir, Cfg.efi_name)

TempDirOk ==
    /\ ReadyToStage
    /\ workDir = "none"
    /\ workDir' = "exists"
    /\ pc' = "TmpCreated"
    /\ UNCHANGED <<runs, argv1, files, config, outcome, diag, world, efiBootDir, tree, children>>

TempDirFail ==
    /\ ReadyToStage
    /\ Panic(<<>>, "Failed to create temp dir")
    /\ UNCHANGED <<runs, argv1, files, config, world, children>>

CreateDirsOk ==
    /\ At("TmpCreated")
    /\ efiBootDir' = TRUE
    /\ pc' = "DirsCreated"
    /\ UNCHANGED <<runs, argv1, files, config, outcome, diag, world, workDir, tree, children>>

CreateDirsFail ==
    /\ At("TmpCreated")
    /\ Panic(<<>>, "Failed to create EFI/BOOT directory")
    /\ UNCHANGED <<runs, argv1, files, config, world, children>>

Moving == Rec("info", <<"Moving binary to ">> \o efi_bin_path)
Copying == Rec("info", <<"Copying binary to ">> \o efi_bin_path)

\* variant: the file is placed at `to` but stays at `from`
renameKeepsSource(to) ==
    /\ tree' = {f \in tree : f.path # to} \cup {[path |-> to, content |-> binFile]}
    /\ binFile' = binFile

\* fs::rename(from, to) of an existing file: it is at `to` and no longer at `from`
rename(to) ==
    /\ tree' = {f \in tree : f.path # to} \cup {[path |-> to, content |-> binFile]}
    /\ binFile' = 0

\* fs::copy(from, to) of an existing file: `to` holds its content, `from` is kept
copy(to) ==
    /\ tree' = {f \in tree : f.path # to} \cup {[path |-> to, content |-> binFile]}
    /\ binFile' = binFile

MoveOk ==
    /\ At("DirsCreated")
    /\ Cfg.move_binary
    /\ binFile # 0
    /\ rename(efi_bin_path)
    /\ Emit(<<Moving>>)
    /\ pc' = "Staged"
    /\ UNCHANGED <<runs, argv1, files, config, outcome, ovmfFiles, workDir, efiBootDir, children>>

\* the source is missing, or the move fails for another reason (cross-device, permissions)
MoveFail ==
    /\ At("DirsCreated")
    /\ Cfg.move_binary
    /\ Panic(<<Moving>>, "Failed to move binary")
    /\ UNCHANGED <<runs, argv1, files, config, world, children>>

CopyOk ==
    /\ At("DirsCreated")
    /\ ~Cfg.move_binary
    /\ binFile # 0
    /\ copy(efi_bin_path)
    /\ Emit(<<Copying>>)
    /\ pc' = "Staged"
    /\ UNCHANGED <<runs, argv1, files, config, outcome, ovmfFiles, workDir, efiBootDir, children>>

CopyFail ==
    /\ At("DirsCreated")
    /\ ~Cfg.move_binary
    /\ Panic(<<Copying>>, "Failed to copy binary")
    /\ UNCHANGED <<runs, argv1, files, config, world, children>>

(***************************************************************************)
(* Firmware verification, lines 90-98.                                     *)
(***************************************************************************)
\* the canonicalized ovmf_path of a run that got past line 91
ovmf_path == canonicalize(Cfg.ovmf_path)[1]

\* variant: one of the two files is enough
FirmwarePresentEither == exists(ovmf_code_bin(ovmf_path)) \/ exists(ovmf_vars_bin(ovmf_path))

FirmwarePresent == exists(ovmf_code_bin(ovmf_path)) /\ exists(ovmf_vars_bin(ovmf_path))

CanonFail ==
    /\ At("Staged")
    /\ canonicalize(Cfg.ovmf_path) = <<>>
    /\ Panic(<<>>, "Failed to canonicalize OVMF path")
    /\ UNCHANGED <<runs, argv1, files, config, world, children>>

FirmwareMissing ==
    /\ At("Staged")
    /\ canonicalize(Cfg.ovmf_path) # <<>>
    /\ ~FirmwarePresent
    /\ Return(<<Rec("error", <<"OVMF files not found in path">>),
                Rec("info", <<"Hint: This tool needs ", "OVMF_CODE.fd", " and ",
                              "OVMF_VARS.fd", " to run">>)>>)
    /\ UNCHANGED <<runs, argv1, files, config, world, children>>

FirmwareOk ==
    /\ At("Staged")
    /\ canonicalize(Cfg.ovmf_path) # <<>>
    /\ FirmwarePresent
    /\ pc' = "FirmwareVerified"
    /\ UNCHANGED <<runs, argv1, files, config, outcome, diag, world, tmp, children>>

(***************************************************************************)
(* Emulation step, lines 99-120.                                           *)
(***************************************************************************)
QemuSpawnOk ==
    /\ At("FirmwareVerified")
    /\ emu' = "running"
    /\ emuCall' = <<[prog |-> Cfg.qemu_cmd,
                     args |-> QemuArgs(Cfg, ovmf_path, WorkDirPath)]>>
    /\ emuSpawns' = emuSpawns + 1
    /\ Emit(<<Rec("info", <<"QEMU started">>)>>)
    /\ pc' = "Launched"
    /\ UNCHANGED <<runs, argv1, files, config, outcome, world, tmp, emuStatus, buildVars>>

QemuSpawnFail ==
    /\ At("FirmwareVerified")
    /\ Panic(<<>>, "Failed to run QEMU")
    /\ UNCHANGED <<runs, argv1, files, config, world, children>>

\* the emulator exits, whatever the runner is doing
QemuExit ==
    /\ emu = "running"
    /\ emu' = "exited"
    /\ emuStatus' \in ExitStatuses
    /\ UNCHANGED <<runs, argv1, files, config, pc, outcome, diag, world, tmp,
                   emuCall, emuSpawns, buildVars>>

\* Display of an ExitStatus
StatusText(s) == IF s = 0 THEN "exit status: 0" ELSE "exit status: nonzero"

\* variant: a non-zero emulator status becomes the runner's own failure
QemuWaitOkPropagates ==
    /\ At("Launched")
    /\ emu = "exited"
    /\ Emit(<<Rec("info", <<"QEMU exited with status: ", StatusText(emuStatus)>>)>>)
    /\ TempDirDrop
    /\ pc' = "Finished"
    /\ outcome' = IF emuStatus = 0 THEN "success" ELSE "failure"
    /\ UNCHANGED <<runs, argv1, files, config, world, children>>

\* variant: the emulator is polled rather than waited for
QemuWaitOkNoBlock ==
    /\ At("Launched")
    /\ emu \in {"running", "exited"}
    /\ Return(<<Rec("info", <<"QEMU exited with status: ", StatusText(emuStatus)>>)>>)
    /\ UNCHANGED <<runs, argv1, files, config, world, children>>

\* child.wait() returned the emulator's status; main falls off its end
QemuWaitOk ==
    /\ At("Launched")
    /\ emu = "exited"
    /\ Return(<<Rec("info", <<"QEMU exited with status: ", StatusText(emuStatus)>>)>>)
    /\ UNCHANGED <<runs, argv1, files, config, world, children>>

\* child.wait() returned an error: the child is no longer there to wait for
QemuWaitFail ==
    /\ At("Launched")
    /\ emu = "exited"
    /\ Panic(<<>>, "Failed to wait for QEMU")
    /\ UNCHANGED <<runs, argv1, files, config, world, children>>

(***************************************************************************)
(* External termination of the runner: the process is gone at once, no     *)
(* destructor runs, its children and the disk stay as they are.            *)
(***************************************************************************)
Interrupt ==
    /\ outcome = "running"
    /\ outcome' = "killed"
    /\ UNCHANGED <<runs, argv1, files, config, pc, diag, world, tmp, children>>

Next ==
    \/ GenOk \/ GenWriteFail
    \/ LoadOk \/ ReadFail \/ ParseFail
    \/ BuildSpawnOk \/ BuildSpawnFail \/ BuildExit
    \/ BuildSucceeded \/ BuildFailed \/ BuildWaitFail
    \/ TempDirOk \/ TempDirFail \/ CreateDirsOk \/ CreateDirsFail
    \/ MoveOk \/ MoveFail \/ CopyOk \/ CopyFail
    \/ CanonFail \/ FirmwareMissing \/ FirmwareOk
    \/ QemuSpawnOk \/ QemuSpawnFail \/ QemuExit
    \/ QemuWaitOk \/ QemuWaitFail
    \/ Interrupt

Spec == Init /\ [][Next]_vars

(***************************************************************************)
(* Progress: the runner takes its next step whenever it has one (it is a   *)
(* single thread that only ever blocks in wait()), and a child that was    *)
(* spawned eventually exits.                                               *)
(***************************************************************************)
MainStep ==
    \/ GenOk \/ GenWriteFail
    \/ LoadOk \/ ReadFail \/ ParseFail
    \/ BuildSpawnOk \/ BuildSpawnFail
    \/ BuildSucceeded \/ BuildFailed \/ BuildWaitFail
    \/ TempDirOk \/ TempDirFail \/ CreateDirsOk \/ CreateDirsFail
    \/ MoveOk \/ MoveFail \/ CopyOk \/ CopyFail
    \/ CanonFail \/ FirmwareMissing \/ FirmwareOk
    \/ QemuSpawnOk \/ QemuSpawnFail
    \/ QemuWaitOk \/ QemuWaitFail

Fairness == WF_vars(MainStep) /\ WF_vars(BuildExit) /\ WF_vars(QemuExit)

SpecLive == Init /\ [][Next]_vars /\ Fairness

(***************************************************************************)
(* Generate mode invoked repeatedly: after a run has ended the tool is     *)
(* started again with "gen", over the disk the earlier runs left.          *)
(***************************************************************************)
Invoke ==
    /\ outcome # "running"
    /\ runs < MaxRuns
    /\ runs' = runs + 1
    /\ argv1' = <<"gen">>
    /\ config' = <<>>
    /\ pc' = "Start"
    /\ outcome' = "running"
    /\ diag' = <<>>
    /\ UNCHANGED <<files, world, tmp, children>>

InitGen == Init /\ argv1 = <<"gen">>

NextGen == GenOk \/ GenWriteFail \/ Interrupt \/ Invoke

SpecGen == InitGen /\ [][NextGen]_vars

(***************************************************************************)
(* Vocabulary of the properties.                                           *)
(***************************************************************************)
Range(seq) == {seq[i] : i \in 1..Len(seq)}

\* the run is over through one of main's own exits (return or panic)
Exited == outcome \in {"success", "panic"}

\* a record of the given level and text has been emitted
Emitted(level, text) == Rec(level, <<text>>) \in Range(diag)

\* the last thing the process printed is this panic message
PanickedWith(text) ==
    /\ outcome = "panic"
    /\ diag # <<>>
    /\ diag[Len(diag)] = Rec("panic", <<text>>)

\* an error has been reported: an error! record or a panic message
Failed == \E r \in Range(diag) : r.level \in {"error", "panic"}

\* the build step failed: cargo could not be spawned, or exited unsuccessfully
BuildBroke == Emitted("panic", "Failed to run build command") \/ Emitted("error", "Build failed")

\* the artifact is in the staging directory, at <work_dir>/EFI/BOOT/<efi_name>
StagedPath == <<"/tmp/.tmpdir", "/", "EFI/BOOT", "/", Cfg.efi_name>>
StagedFiles == {f \in tree : f.path = StagedPath}

(***************************************************************************)
(* C1. In a run that ended through return or panic, a staging directory    *)
(* that was created no longer exists, with nothing left under it, whatever *)
(* step ended the run.                                                     *)
(***************************************************************************)
C1_StagingDirRemovedAtExit ==
    Exited => /\ workDir # "exists"
              /\ ~efiBootDir
              /\ tree = {}

\* a run that staged the artifact, failed to spawn the emulator, and left no directory
C1_Witness ==
    /\ PanickedWith("Failed to run QEMU")
    /\ workDir = "removed"

(***************************************************************************)
(* C2. Once the build could not be spawned or exited unsuccessfully, the   *)
(* run is over with no staging directory ever created, nothing staged, no  *)
(* emulator spawned, and the runner has not touched the artifact: the      *)
(* firmware check and everything after it need the staging directory,      *)
(* which no step before the end of the build creates.                      *)
(***************************************************************************)
BeforeStaging == {"Start", "ConfigLoaded", "Building", "Built"}
AfterTempDir == {"TmpCreated", "DirsCreated", "Staged", "FirmwareVerified", "Launched"}

C2_BuildFailureHaltsRun ==
    /\ [](BuildBroke => /\ Exited
                        /\ workDir = "none"
                        /\ tree = {}
                        /\ emu = "none" /\ emuSpawns = 0 /\ emuCall = <<>>)
    /\ [](pc \in AfterTempDir => workDir = "exists")
    /\ [](pc \in BeforeStaging => workDir = "none" /\ emuSpawns = 0)
    /\ [][(pc \in BeforeStaging /\ build' = build) => binFile' = binFile /\ tree' = tree]_vars
    /\ [][BuildBroke => UNCHANGED <<binFile, tmp, emuVars, pc, outcome>>]_vars

\* the build exited with a non-zero status and the run ended there
C2_Witness ==
    /\ Emitted("error", "Build failed")
    /\ buildStatus # 0
    /\ pc = "Finished"
    /\ workDir = "none"

(***************************************************************************)
(* C3 (as stated). Every reported failure of a run ends the process        *)
(* abnormally: a run that reported an error and ended did not end with the *)
(* success outcome.                                                        *)
(***************************************************************************)
C3_EveryFailureEndsAbnormally ==
    (Exited /\ Failed) => outcome = "panic"

(***************************************************************************)
(* C4. The emulator is spawned only when the firmware directory resolves   *)
(* and holds both OVMF_CODE.fd and OVMF_VARS.fd; a run that reaches the    *)
(* firmware check with one of them missing ends there without spawning,    *)
(* after emitting a record that names both files.                          *)
(***************************************************************************)
NamesBothFirmwareFiles(r) == FirmwareNames \subseteq Range(r.msg)

C4_FirmwareGate ==
    /\ [](emu # "none" \/ emuSpawns > 0 \/ pc \in {"FirmwareVerified", "Launched"}
            => /\ canonicalize(Cfg.ovmf_path) # <<>>
               /\ FirmwareNames \subseteq ovmfFiles)
    /\ [][(/\ At("Staged")
           /\ canonicalize(Cfg.ovmf_path) # <<>>
           /\ ~(FirmwareNames \subseteq ovmfFiles)
           /\ pc' # pc)
            => /\ pc' = "Finished"
               /\ emu' = "none" /\ emuSpawns' = 0
               /\ Len(diag') > Len(diag)
               /\ \E i \in (Len(diag) + 1)..Len(diag') : NamesBothFirmwareFiles(diag'[i])]_vars

\* a run stopped by the firmware check with exactly one of the two files missing
C4_Witness ==
    /\ Emitted("error", "OVMF files not found in path")
    /\ Cardinality(ovmfFiles) = 1
    /\ emuSpawns = 0
    /\ pc = "Finished"

(***************************************************************************)
(* C5. When staging has succeeded the artifact is the one file under the   *)
(* staging directory, at <work_dir>/EFI/BOOT/<efi_name>, with the content  *)
(* the file at binary_path had; with move_binary the file at binary_path   *)
(* is gone, without it the file at binary_path is still there, unchanged   *)
(* by the staging step and equal to the staged file.                       *)
(***************************************************************************)
C5_MoveCopySemantics ==
    /\ [](pc \in {"Staged", "FirmwareVerified", "Launched"}
            => /\ \E f \in StagedFiles : f.content \in Contents
               /\ Cardinality(tree) = 1
               /\ Cfg.move_binary => binFile = 0
               /\ ~Cfg.move_binary => \A f \in StagedFiles : f.content = binFile)
    /\ [][(pc = "DirsCreated" /\ pc' = "Staged")
            => /\ binFile \in Contents
               /\ tree' = {[path |-> StagedPath, content |-> binFile]}
               /\ ~Cfg.move_binary => binFile' = binFile]_vars

\* staged by copy: source and staged file both exist with the same content
C5_Witness ==
    /\ pc = "Staged"
    /\ ~Cfg.move_binary
    /\ binFile = NumContents
    /\ tree = {[path |-> StagedPath, content |-> NumContents]}

(***************************************************************************)
(* C6 (as stated). A run that was terminated from outside after the        *)
(* staging directory was created leaves no staging directory behind.       *)
(***************************************************************************)
C6_RemovedWhenInterrupted ==
    (outcome = "killed" /\ workDir # "none") => (workDir = "removed" /\ tree = {})

(***************************************************************************)
(* C7. The pipeline position only moves forward along                      *)
(* Start, ConfigLoaded, [Building, Built], TmpCreated, DirsCreated, Staged,*)
(* FirmwareVerified, Launched, Finished: the build is entered only with    *)
(* auto_build and skipped only without it, each position is entered from   *)
(* its predecessor, each child is spawned at most once, staging starts     *)
(* only after a build that exited successfully, the emulator is launched   *)
(* only over a staged artifact and present firmware, and once a failure    *)
(* was reported the run is finished and nothing more happens in it.        *)
(***************************************************************************)
Forward ==
    { <<"Start", "ConfigLoaded">>,
      <<"ConfigLoaded", "Building">>, <<"Building", "Built">>, <<"Built", "TmpCreated">>,
      <<"ConfigLoaded", "TmpCreated">>,
      <<"TmpCreated", "DirsCreated">>, <<"DirsCreated", "Staged">>,
      <<"Staged", "FirmwareVerified">>, <<"FirmwareVerified", "Launched">> }
    \cup { <<p, "Finished">> : p \in {"Start", "ConfigLoaded", "Building", "Built", "TmpCreated",
                                      "DirsCreated", "Staged", "FirmwareVerified", "Launched"} }

C7_LinearPipeline ==
    /\ [][pc' # pc => /\ <<pc, pc'>> \in Forward
                      /\ outcome = "running"
                      /\ (pc' = "Building") => Cfg.auto_build
                      /\ (pc = "ConfigLoaded" /\ pc' = "TmpCreated") => ~Cfg.auto_build]_vars
    /\ [](buildSpawns <= 1 /\ emuSpawns <= 1)
    /\ [](pc = "Building" => buildSpawns = 1)
    /\ [](pc \in {"Built"} \cup AfterTempDir /\ Cfg.auto_build
            => build = "exited" /\ buildStatus = 0)
    /\ [](pc \in AfterTempDir /\ ~Cfg.auto_build => build = "none" /\ buildSpawns = 0)
    /\ [](pc = "Launched" => /\ emuSpawns = 1
                             /\ StagedFiles # {}
                             /\ FirmwareNames \subseteq ovmfFiles)
    /\ [](pc # "Launched" /\ pc # "Finished" => emuSpawns = 0)
    /\ [](Failed => pc = "Finished" /\ Exited)
    /\ [][Failed => UNCHANGED <<pc, outcome, diag, files, config, binFile, tmp,
                                buildCall, buildSpawns, emuCall, emuSpawns>>]_vars

\* a staging failure after a successful build: the run is over, no emulator was spawned
C7_Witness ==
    /\ PanickedWith("Failed to move binary")
    /\ Emitted("info", "Build successful")
    /\ emuSpawns = 0
    /\ pc = "Finished"

(***************************************************************************)
(* C8. While the emulator is running the staging directory exists, holds   *)
(* the artifact at <work_dir>/EFI/BOOT/<efi_name> and nothing else, is the *)
(* directory the emulator was given as its FAT drive, and no step changes  *)
(* it.                                                                     *)
(***************************************************************************)
C8_StagingHeldWhileEmulatorRuns ==
    /\ [](emu = "running"
            => /\ workDir = "exists"
               /\ efiBootDir
               /\ \E k \in Contents : tree = {[path |-> StagedPath, content |-> k]}
               /\ <<"format=raw,file=fat:rw:", "/tmp/.tmpdir">> \in Range(emuCall[1].args)
               /\ \A a \in Range(emuCall[1].args) :
                     (a # <<>> /\ a[1] = "format=raw,file=fat:rw:") => a = <<"format=raw,file=fat:rw:">> \o WorkDirPath)
    /\ [][emu = "running" => UNCHANGED tmp]_vars

\* the emulator is running and the runner is blocked in wait
C8_Witness ==
    /\ emu = "running"
    /\ At("Launched")
    /\ workDir = "exists"

(***************************************************************************)
(* C9. A run whose wait on the emulator returned a status ends with the    *)
(* success outcome and has reported that status, whether it is zero or not.*)
(***************************************************************************)
C9_EmulatorStatusNotAFailure ==
    (pc = "Finished" /\ emu = "exited" /\ ~Emitted("panic", "Failed to wait for QEMU"))
        => /\ outcome = "success"
           /\ ~Failed
           /\ diag[Len(diag)] = Rec("info", <<"QEMU exited with status: ", StatusText(emuStatus)>>)

\* the emulator exited with a non-zero status and the run ended successfully
C9_Witness ==
    /\ pc = "Finished"
    /\ emu = "exited"
    /\ emuStatus # 0
    /\ outcome = "success"

(***************************************************************************)
(* C10. The emulator is spawned with exactly: -machine q35; -drive with    *)
(* the pflash raw image OVMF_CODE.fd of the canonical firmware directory;  *)
(* -drive with the pflash raw image OVMF_VARS.fd of the same directory;    *)
(* -drive with the staging directory as a writable FAT filesystem; and, if *)
(* and only if stdio_serial is set, -chardev with its value followed by    *)
(* -serial chardev:char0.                                                  *)
(***************************************************************************)
FixedArgs ==
    << <<"-machine">>, <<"q35">>,
       <<"-drive">>, <<"if=pflash,format=raw,file=", "/abs/ovmf", "/", "OVMF_CODE.fd">>,
       <<"-drive">>, <<"if=pflash,format=raw,file=", "/abs/ovmf", "/", "OVMF_VARS.fd">>,
       <<"-drive">>, <<"format=raw,file=fat:rw:", "/tmp/.tmpdir">> >>

C10_EmulatorArguments ==
    emuCall # <<>> =>
        LET args == emuCall[1].args IN
        /\ emuCall[1].prog = Cfg.qemu_cmd
        /\ SubSeq(args, 1, 8) = FixedArgs
        /\ Cfg.stdio_serial => /\ Len(args) = 12
                               /\ args[9] = <<"-chardev">>
                               /\ args[10] # <<>>
                               /\ args[11] = <<"-serial">>
                               /\ args[12] = <<"chardev:char0">>
        /\ ~Cfg.stdio_serial => Len(args) = 8

\* the emulator was spawned with the serial arguments
C10_Witness ==
    /\ emuCall # <<>>
    /\ Cfg.stdio_serial
    /\ Len(emuCall[1].args) = 12

(***************************************************************************)
(* C11 (as stated). The arguments the emulator is spawned with name        *)
(* log_path as a log file exactly when stdio_serial and log_serial are     *)
(* both set.                                                               *)
(***************************************************************************)
\* the fragments of all arguments of the emulator
ArgFragments == UNION {Range(a) : a \in Range(emuCall[1].args)}

\* log_path occurs in the arguments
NamesLogPath == Range(Cfg.log_path) \subseteq ArgFragments

C11_LogFileOnlyWithLogSerial ==
    emuCall # <<>> => (NamesLogPath <=> (Cfg.stdio_serial /\ Cfg.log_serial))

(***************************************************************************)
(* C12. Without stdio_serial the emulator's arguments are the four fixed   *)
(* options and nothing else: no -chardev, no -serial, no log_path; they    *)
(* are the arguments the same configuration with log_serial flipped gets.  *)
(***************************************************************************)
C12_NoSerialWithoutStdio ==
    (emuCall # <<>> /\ ~Cfg.stdio_serial)
        => /\ <<"-chardev">> \notin Range(emuCall[1].args)
           /\ <<"-serial">> \notin Range(emuCall[1].args)
           /\ <<"chardev:char0">> \notin Range(emuCall[1].args)
           /\ ~NamesLogPath
           /\ "id=char0,logfile=" \notin ArgFragments
           /\ emuCall[1].args = FixedArgs
           /\ emuCall[1].args =
                QemuArgs([Cfg EXCEPT !.log_serial = ~Cfg.log_serial], ovmf_path, WorkDirPath)

\* spawned without stdio_serial although log_serial is set
C12_Witness ==
    /\ emuCall # <<>>
    /\ ~Cfg.stdio_serial
    /\ Cfg.log_serial
    /\ Len(emuCall[1].args) = 8

(***************************************************************************)
(* C13. With "gen" as the first argument the run is one step: it writes    *)
(* the example configuration to uefapi-runner.toml and ends, having read   *)
(* no configuration, spawned no child and created no staging directory.    *)
(* With any other first argument, or none, the configuration is loaded     *)
(* from the file that argument names (uefapi-runner.toml when there is     *)
(* none), and no file is written.                                          *)
(***************************************************************************)
GenMode == argv1 = <<"gen">>

\* the path load mode reads
LoadedFrom == IF argv1 = <<>> THEN "uefapi-runner.toml" ELSE argv1[1]

LoadingRecords == {r \in Range(diag) : r.msg # <<>> /\ r.msg[1] = "Loading config from "}

C13_ModeSelection ==
    /\ [](GenMode => /\ pc \in {"Start", "Finished"}
                     /\ config = <<>>
                     /\ LoadingRecords = {}
                     /\ workDir = "none" /\ tree = {}
                     /\ buildSpawns = 0 /\ emuSpawns = 0
                     /\ build = "none" /\ emu = "none")
    /\ [](GenMode /\ outcome = "success"
            => /\ files["uefapi-runner.toml"] = [kind |-> "toml", cfg |-> example]
               /\ Rec("info", <<"Example config written to uefapi-runner.toml">>) \in Range(diag))
    /\ [][GenMode => files'["other.toml"] = files["other.toml"]]_vars
    /\ [](~GenMode /\ config # <<>>
            => /\ files[LoadedFrom].kind = "toml"
               /\ Cfg = files[LoadedFrom].cfg
               /\ LoadingRecords = {Rec("info", <<"Loading config from ", LoadedFrom>>)})
    /\ [](~GenMode /\ pc \notin {"Start", "Finished"} => config # <<>>)
    /\ [][~GenMode => files' = files]_vars

\* a finished generate run: the example is on disk, over a file that held a
\* configuration of its own, and nothing was loaded
C13_Witness ==
    /\ GenMode
    /\ outcome = "success"
    /\ files["uefapi-runner.toml"] = [kind |-> "toml", cfg |-> example]
    /\ files["other.toml"].kind = "toml"
    /\ config = <<>>

(***************************************************************************)
(* C14. Without auto_build no build tool is ever spawned and the run goes  *)
(* from ConfigLoaded to staging (or to its end) with the file at           *)
(* binary_path untouched. With auto_build, every run that got past the     *)
(* spawn has spawned cargo exactly once, with the whitespace-separated     *)
(* words of build_cmd as arguments and project_path as working directory,  *)
(* and no staging directory exists before that.                            *)
(***************************************************************************)
\* the words of the build commands of BuildCmds
Words(cmd) == IF cmd = <<"build", " ", "--release">>
              THEN <<"build", "--release">>
              ELSE <<"build", "-q">>

C14_BuildOnlyWithAutoBuild ==
    /\ [](config # <<>> /\ ~Cfg.auto_build
            => /\ buildSpawns = 0 /\ build = "none" /\ buildCall = <<>>
               /\ pc \notin {"Building", "Built"})
    /\ [][(config # <<>> /\ ~Cfg.auto_build /\ pc = "ConfigLoaded")
            => binFile' = binFile /\ pc' \in {"ConfigLoaded", "TmpCreated", "Finished"}]_vars
    /\ [](buildSpawns <= 1)
    /\ [](config # <<>> /\ Cfg.auto_build /\ (pc \in {"Building", "Built"} \cup AfterTempDir \/ workDir # "none")
            => /\ buildSpawns = 1
               /\ buildCall = <<[prog |-> "cargo",
                                 args |-> Words(Cfg.build_cmd),
                                 cwd  |-> Cfg.project_path]>>)
    /\ [](buildCall # <<>> => " " \notin Range(buildCall[1].args))
    /\ [](pc \in {"Start", "ConfigLoaded", "Building"} => workDir = "none" /\ tree = {})

\* a built and staged run whose build_cmd had leading and repeated whitespace
C14_Witness ==
    /\ pc = "Staged"
    /\ Cfg.auto_build
    /\ Cfg.build_cmd = <<" ", "build", " ", " ", "-q">>
    /\ buildCall[1].args = <<"build", "-q">>
    /\ buildSpawns = 1

(***************************************************************************)
(* C15. The warning about moving without building is emitted exactly for   *)
(* auto_build = false with move_binary = true, once, right after the       *)
(* configuration is loaded; it is no error, the run stands at ConfigLoaded *)
(* after it and staging can go on from there.                              *)
(***************************************************************************)
Warnings == {i \in 1..Len(diag) : diag[i].level = "warn"}

C15_WarningIsAdvisory ==
    /\ [](config # <<>>
            => /\ (Warnings # {}) <=> (~Cfg.auto_build /\ Cfg.move_binary)
               /\ Warnings \subseteq {4}
               /\ diag[3] = Rec("info", <<"Config loaded: ", "{:?}">>))
    /\ [](config = <<>> => Warnings = {})
    /\ [](pc = "ConfigLoaded" => ~Failed)
    /\ [](At("ConfigLoaded") /\ Warnings # {} => ENABLED TempDirOk)
    /\ [][(pc = "Start" /\ config' # <<>>) => pc' = "ConfigLoaded" /\ outcome' = "running"]_vars

\* a warned run that went on to launch the emulator
C15_Witness ==
    /\ Warnings # {}
    /\ pc = "Launched"
    /\ emu = "running"

(***************************************************************************)
(* C16. Every successful generate run leaves uefapi-runner.toml holding    *)
(* the same fixed example configuration, whatever the file held before and *)
(* however many generate runs came before; a generate run over an already  *)
(* generated file changes nothing on disk.                                 *)
(***************************************************************************)
\* the documented example values
DocumentedExample ==
    [ project_path |-> <<".">>,
      auto_build   |-> TRUE,
      build_cmd    |-> <<"build", " ", "--target", " ", "x86_64-unknown-uefi", " ", "--release">>,
      binary_path  |-> <<"target/x86_64-unknown-uefi/debug/your_bin_name.efi">>,
      efi_name     |-> "BOOTX64.EFI",
      move_binary  |-> TRUE,
      qemu_cmd     |-> <<"/path_to_qemu/qemu-system-x86_64">>,
      ovmf_path    |-> <<"/path_to_ovmf_files">>,
      stdio_serial |-> TRUE,
      log_serial   |-> TRUE,
      log_path     |-> <<"runner-x86_64-release.log">> ]

Generated == [kind |-> "toml", cfg |-> DocumentedExample]

C16_GenerateIdempotent ==
    /\ [](GenMode /\ outcome = "success" => files["uefapi-runner.toml"] = Generated)
    /\ [][(GenMode /\ At("Start") /\ outcome' = "success")
            => /\ files'["uefapi-runner.toml"] = Generated
               /\ files'["other.toml"] = files["other.toml"]
               /\ (files["uefapi-runner.toml"] = Generated => files' = files)]_vars

\* the second generate run in a row has succeeded
C16_Witness ==
    /\ runs = 2
    /\ GenMode
    /\ outcome = "success"
    /\ files["uefapi-runner.toml"] = Generated

(***************************************************************************)
(* C17. A run whose children eventually exit eventually ends: it reaches   *)
(* Finished unless it is terminated from outside first. Finished is final  *)
(* and no child is spawned twice. There is no timeout: while the build     *)
(* tool is running the run stays at Building, and while the emulator is    *)
(* running the run stays where it is and does not end by itself.           *)
(***************************************************************************)
C17_EndsWhenChildrenExit ==
    /\ <>(pc = "Finished" \/ outcome = "killed")
    /\ [][pc = "Finished" => pc' = "Finished" /\ outcome' = outcome]_vars
    /\ [](buildSpawns <= 1 /\ emuSpawns <= 1)
    /\ [][(pc = "Building" /\ build = "running") => pc' = "Building"]_vars
    /\ [](pc \in AfterTempDir => build # "running")
    /\ [][emu = "running" => pc' = pc /\ outcome' \notin {"success", "panic"}]_vars
    /\ [](emu = "running" /\ outcome # "killed" => pc = "Launched")

\* a run that went through the build and the emulator and finished
C17_Witness ==
    /\ pc = "Finished"
    /\ build = "exited"
    /\ emu = "exited"
    /\ outcome = "success"

(***************************************************************************)
(* C18. A run in load mode never changes a configuration file; only a      *)
(* generate run at its start does. The configuration is loaded in one      *)
(* step, from Start, after a single read, and stays the value that was     *)
(* loaded (the content of the file it was read from) until the run is over.*)
(***************************************************************************)
C18_ConfigReadOnceNeverWritten ==
    /\ [][~GenMode => files' = files]_vars
    /\ [][files' # files => GenMode /\ At("Start") /\ pc' = "Finished"]_vars
    /\ [][config' # config => pc = "Start" /\ config = <<>> /\ pc' = "ConfigLoaded"]_vars
    /\ [][config # <<>> => config' = config]_vars
    /\ [](Cardinality(LoadingRecords) <= 1)
    /\ [](config # <<>> => config = <<files[LoadedFrom].cfg>> /\ Len(config) = 1)

\* a run at the emulator: the configuration is still the one in the file
C18_Witness ==
    /\ pc = "Launched"
    /\ argv1 = <<>>
    /\ config = <<files["uefapi-runner.toml"].cfg>>
    /\ files["other.toml"].kind = "garbage"

(***************************************************************************)
(* C19. With move_binary, from successful staging on there is no file at   *)
(* binary_path any more, whatever happens later, and a run that ended by   *)
(* return or panic has left the artifact nowhere: not at binary_path and   *)
(* not under the removed staging directory. Staging precedes the firmware  *)
(* check, so a run stopped by an unresolvable ovmf_path or by missing      *)
(* firmware has consumed the artifact already.                             *)
(***************************************************************************)
\* the move to the staging directory was done
Moved ==
    /\ \E r \in Range(diag) : r.msg # <<>> /\ r.msg[1] = "Moving binary to "
    /\ ~Emitted("panic", "Failed to move binary")

\* the run reached the firmware step
ReachedFirmware ==
    \/ Emitted("panic", "Failed to canonicalize OVMF path")
    \/ Emitted("error", "OVMF files not found in path")
    \/ pc \in {"FirmwareVerified", "Launched"}
    \/ emuSpawns > 0
    \/ Emitted("panic", "Failed to run QEMU")

C19_MoveConsumesArtifact ==
    /\ [](config # <<>> /\ Cfg.move_binary /\ pc \in {"Staged", "FirmwareVerified", "Launched"}
            => /\ binFile = 0
               /\ \E k \in Contents : tree = {[path |-> StagedPath, content |-> k]})
    /\ [](Moved => binFile = 0)
    /\ [](Moved /\ Exited => tree = {} /\ workDir = "removed")
    /\ [](config # <<>> /\ Cfg.move_binary /\ ReachedFirmware => Moved)
    /\ [][Moved => binFile' = 0]_vars

\* the artifact was moved, then the firmware directory did not resolve: it is gone
C19_Witness ==
    /\ PanickedWith("Failed to canonicalize OVMF path")
    /\ Cfg.move_binary
    /\ Moved
    /\ binFile = 0
    /\ tree = {}

====
